---- MODULE Spec2Model ----
(***************************************************************************)
(* Model of the incremental collector of generate_github_stats.py:         *)
(* load_cache / save_cache / collect_all_data, together with the GitHub    *)
(* repository they read (the source) and the cache file they write.        *)
(*                                                                         *)
(* The process runs one collect_all_data at a time.  The cache file is     *)
(* modelled as the text json.dump has written so far, one token per chunk, *)
(* so that a process death in the middle of save_cache leaves the prefix   *)
(* that was written.  The source hands out its issues lazily, one per loop *)
(* iteration, in an order it chooses, and may hand out one more than once. *)
(***************************************************************************)
EXTENDS Integers, Sequences, FiniteSets, TLC

\* ---------------------------------------------------------------- bounds
\* Largest issue number the repository reaches.
MaxId == 3
\* How many times one run of the source may hand out an issue it has already
\* handed out in that run (pagination shifting under the iterator).
MaxRedeliver == 1
\* The collector's save_interval.  The source sets it to 100
\* (generate_github_stats.py:100); it is scaled down here so that a periodic
\* save, and records fetched after it, happen within MaxId issues.
save_interval == 2
\* How many times the program is started.
MaxRuns == 2
\* How many issues are closed at the source over the whole history.
MaxCloses == 1
\* How many records a list handed to the statistics functions holds at most.
MaxItems == 3
\* The latest instant a record of such a list is created or closed at.
MaxTime == 2
\* How many instants a calendar month spans.
MonthLen == 2
\* How many commits the traversal of a repository visits.
MaxCommits == 2
\* How many files one commit modifies at most.
MaxFiles == 2
\* How many lines one commit message has at most.
MaxLines == 1
\* The latest committer date of a commit.
MaxDate == 1

VARIABLES
    repo,           \* the source: repo[n] is issue number n as the API reports it
    file,           \* the cache file: Absent, or the text written so far
    pc,             \* "idle" | "fetch" | "saving" | "done" | "error"
    use_cache,      \* collect_all_data's parameter
    cached_issues, cached_prs, last_number,
    new_issues, new_prs, count, new_items,
    all_issues, all_prs,    \* the return value, once pc = "done"
    delivered,      \* numbers the iterator `issues` has handed out in this run
    redelivered,    \* how many hand-outs of this run were repeats
    wbuf,           \* save_cache: the chunks json.dump has still to write
    save_ret,       \* save_cache: where the caller continues ("fetch" | "done")
    prev,           \* history: the last completed use_cache run's result, valid
                    \*          while the source has not changed since
    feed,           \* history, over the use_cache runs so far: "ascending" (each
                    \*          was fed in ascending number order, each issue once),
                    \*          "any_order" (each issue once per run, some run out
                    \*          of order) or "repeats" (some run was handed an
                    \*          issue twice)
    ckpt,           \* history: last_number of the last completely written file
    runs,           \* history: how many times the program was started
    closes,         \* history: how many issues were closed
    lost,           \* history: a use_cache run died between two saves, after a
                    \*          periodic save, holding records not yet saved
    items_data,     \* the list the caller hands to the statistics functions
    called,         \* which of the statistics functions have returned
    events,         \* calculate_cumulative_stats: its sorted event list
    created_dates, created_counts,  \* calculate_cumulative_stats' return value
    open_dates, open_counts,
    months, counts, \* calculate_monthly_stats' return value
    items_in,       \* history: items_data as the caller built it
    ppc,            \* generate_plots: "next" | "files" | "coauthors"
    commit,         \* generate_plots: the commit the traversal is at
    visited,        \* generate_plots: how many of the commit's modifications the
                    \*                 loop over modified_files has visited
    coauthors,      \* generate_plots: the extracted co-authors still to visit
    modules,        \* generate_plots: module name -> str(committer_date)
    mods_plot_x, mods_plot_y,
    contributors,   \* generate_plots: contributor name -> str(committer_date)
    contributors_plot_x, contributors_plot_y,
    traversed,      \* history: how many commits the traversal has visited
    mods_shown,     \* history: module name -> committer date of the first commit
                    \*          that added a file of the module
    names_shown,    \* history: contributor name -> committer date of the first
                    \*          commit that has it as committer or extracted co-author
    reseen          \* history: the kinds ("module", "contributor") of which a
                    \*          recorded name was shown again by a commit of
                    \*          another committer date

\* The collector's variables.
cvars == <<repo, file, pc, use_cache, cached_issues, cached_prs, last_number,
           new_issues, new_prs, count, new_items, all_issues, all_prs,
           delivered, redelivered, wbuf, save_ret, prev, feed, ckpt, runs, closes, lost>>

\* The variables of the statistics functions.
avars == <<items_data, called, events, created_dates, created_counts,
           open_dates, open_counts, months, counts, items_in>>

\* The variables of generate_plots.
pvars == <<ppc, commit, visited, coauthors, modules, mods_plot_x,
           mods_plot_y, contributors, contributors_plot_x, contributors_plot_y,
           traversed, mods_shown, names_shown, reseen>>

vars == <<cvars, avars, pvars>>

\* ------------------------------------------------------------ values
\* Python's None, a datetime object, and the text str(datetime) gives.
None == [kind |-> "None", t |-> 0]
datetime(t) == [kind |-> "datetime", t |-> t]
isostring(t) == [kind |-> "str", t |-> t]

\* bool(v) for the values a closed_at field holds: None is falsy.
Truthy(v) == v.kind # "None"

\* json.dump(..., default=str): a datetime is written as str(datetime), None as
\* null, a string as itself.
json_default(v) == IF v.kind = "datetime" THEN isostring(v.t) ELSE v

\* datetime.fromisoformat(s.replace('Z', '+00:00'))
fromisoformat(s) == datetime(s.t)

Max(a, b) == IF a >= b THEN a ELSE b

\* ------------------------------------------------------------ the source
\* Which numbers are pull requests: issues and pull requests share one number
\* sequence at the source.
IsPullRequest(n) == n % 2 = 0

\* Issue numbers are assigned in creation order, so is the creation time.
CreatedAt(n) == n
\* An issue is closed the instant after the next one could be created.
ClosedAt(n) == n + 1

\* The issue object PyGithub hands out.
NewIssue(n) ==
    [number |-> n, created_at |-> datetime(CreatedAt(n)), closed_at |-> None,
     state |-> "open", pull_request |-> IsPullRequest(n)]

\* ------------------------------------------------------------ the cache file
\* cache_path.exists() is false.
Absent == <<[tok |-> "absent", item |-> None]>>

\* The chunks json.dump writes, in order: the opening of the object, one chunk
\* per issue, the "prs" key, one chunk per PR, and the closing chunk that holds
\* "last_updated" and the final brace.
Tok(kind, item) == [tok |-> kind, item |-> item]

\* One cached item as json.dump writes it (the title is left out of the model).
json_item(item) ==
    [number |-> item.number,
     created_at |-> json_default(item.created_at),
     closed_at |-> json_default(item.closed_at),
     state |-> item.state,
     is_pr |-> item.is_pr]

IssueToks(items) == [i \in 1..Len(items) |-> Tok("issue", json_item(items[i]))]
PrToks(items) == [i \in 1..Len(items) |-> Tok("pr", json_item(items[i]))]

\* json.dump(cache_data, f, indent=2, default=str), as the sequence of chunks.
json_dump(cache_data) ==
    <<Tok("begin", None)>> \o IssueToks(cache_data.issues)
        \o <<Tok("prs", None)>> \o PrToks(cache_data.prs)
        \o <<Tok("end", None)>>

\* Whether json.load accepts the text: only a text that runs to the closing
\* brace is a JSON document; every proper prefix of one is rejected.
JsonValid(text) ==
    /\ Len(text) >= 3
    /\ text[1].tok = "begin"
    /\ text[Len(text)].tok = "end"

IsIssueTok(x) == x.tok = "issue"
IsPrTok(x) == x.tok = "pr"
TokItems(toks) == [i \in 1..Len(toks) |-> toks[i].item]

\* json.load(f) of an accepted text.
json_load(text) ==
    [issues |-> TokItems(SelectSeq(text, IsIssueTok)),
     prs |-> TokItems(SelectSeq(text, IsPrTok))]

EmptyCache == [issues |-> <<>>, prs |-> <<>>]

\* A load_cache that swallows json.load's exception and starts over.
load_cache_soft(f) ==
    IF f # Absent /\ JsonValid(f) THEN [raised |-> FALSE, data |-> json_load(f)]
    ELSE [raised |-> FALSE, data |-> EmptyCache]

\* load_cache: the empty cache when there is no file, the parsed file when there
\* is one, and json.load's exception when the file does not parse.
load_cache(f) ==
    IF f = Absent THEN [raised |-> FALSE, data |-> EmptyCache]
    ELSE IF JsonValid(f) THEN [raised |-> FALSE, data |-> json_load(f)]
    ELSE [raised |-> TRUE, data |-> EmptyCache]

\* ------------------------------------------------------------ collect_all_data
\* Lines 74-77 / 83-86: a cached item's timestamps back to datetime objects.
ConvertItem(item) ==
    [item EXCEPT
        !.created_at = IF item.created_at.kind = "str"
                       THEN fromisoformat(item.created_at) ELSE item.created_at,
        !.closed_at = IF Truthy(item.closed_at) /\ item.closed_at.kind = "str"
                      THEN fromisoformat(item.closed_at) ELSE item.closed_at]

\* Lines 73-78 / 82-87: the loop over the cached items.
ConvertItems(items) == [i \in 1..Len(items) |-> ConvertItem(items[i])]

RECURSIVE NumberFold(_, _)
\* Lines 79 / 88: last_number = max(last_number, item['number']) over the items.
NumberFold(items, acc) ==
    IF items = <<>> THEN acc
    ELSE NumberFold(Tail(items), Max(acc, Head(items).number))

\* A last_number that forgets the loop over the PRs.
LastNumber_IssuesOnly(cache_data) == NumberFold(cache_data.issues, 0)

\* Lines 68-88: last_number after both loops.
LastNumber(cache_data) == NumberFold(cache_data.prs, NumberFold(cache_data.issues, 0))

\* A skip test that is off by one.
Skipped_Strict(issue, last) == issue.number < last

\* Line 106: skip items we already have cached.
Skipped(issue, last) == issue.number <= last

\* Lines 111-118.
ItemData(issue) ==
    [number |-> issue.number,
     created_at |-> issue.created_at,
     closed_at |-> issue.closed_at,
     state |-> issue.state,
     is_pr |-> issue.pull_request]

\* Lines 128-132: the cache a periodic save writes (last_updated is the wall
\* clock; it is part of the closing chunk and nothing reads it back).
CurrentCache(c_issues, n_issues, c_prs, n_prs) ==
    [issues |-> c_issues \o n_issues, prs |-> c_prs \o n_prs]

\* Lines 137-138.
Combine(cached, new) == cached \o new

\* A final save that writes the new records without the cached ones.
FinalCache_NewOnly(a_issues, a_prs) == [issues |-> new_issues, prs |-> new_prs]

\* Lines 144-148: the cache the final save writes.
FinalCache(a_issues, a_prs) == [issues |-> a_issues, prs |-> a_prs]

\* Line 126: a periodic save is due.
SaveDue(n) == n % save_interval = 0

\* ------------------------------------------------------------ state machine
Numbers == 1..Len(repo)

NoResult == [valid |-> FALSE, issues |-> <<>>, prs |-> <<>>]

\* The memory of a process that is not running collect_all_data.
NoRun ==
    /\ use_cache' = FALSE
    /\ cached_issues' = <<>>
    /\ cached_prs' = <<>>
    /\ last_number' = 0
    /\ new_issues' = <<>>
    /\ new_prs' = <<>>
    /\ count' = 0
    /\ new_items' = 0
    /\ all_issues' = <<>>
    /\ all_prs' = <<>>
    /\ delivered' = {}
    /\ redelivered' = 0
    /\ wbuf' = <<>>
    /\ save_ret' = "fetch"

\* No statistics function has been called, on no list.
NoStats ==
    /\ items_data = <<>>
    /\ called = {}
    /\ events = <<>>
    /\ created_dates = <<>>
    /\ created_counts = <<>>
    /\ open_dates = <<>>
    /\ open_counts = <<>>
    /\ months = <<>>
    /\ counts = <<>>
    /\ items_in = <<>>

\* The collector before its first run.
CollectorInit ==
    /\ repo = <<>>
    /\ file = Absent
    /\ pc = "idle"
    /\ use_cache = FALSE
    /\ cached_issues = <<>>
    /\ cached_prs = <<>>
    /\ last_number = 0
    /\ new_issues = <<>>
    /\ new_prs = <<>>
    /\ count = 0
    /\ new_items = 0
    /\ all_issues = <<>>
    /\ all_prs = <<>>
    /\ delivered = {}
    /\ redelivered = 0
    /\ wbuf = <<>>
    /\ save_ret = "fetch"
    /\ prev = NoResult
    /\ feed = "ascending"
    /\ ckpt = 0
    /\ runs = 0
    /\ closes = 0
    /\ lost = FALSE

\* An entry of a commit that has no commit to name.
NoCommit == [committer_date |-> None, committer |-> ""]

\* generate_plots before the traversal starts (lines 60-68).
NoPlots ==
    /\ ppc = "next"
    /\ commit = NoCommit
    /\ visited = 0
    /\ coauthors = <<>>
    /\ modules = <<>>
    /\ mods_plot_x = <<>>
    /\ mods_plot_y = <<>>
    /\ contributors = <<>>
    /\ contributors_plot_x = <<>>
    /\ contributors_plot_y = <<>>
    /\ traversed = 0
    /\ mods_shown = <<>>
    /\ names_shown = <<>>
    /\ reseen = {}

Init == CollectorInit /\ NoStats /\ NoPlots

\* The source: somebody opens issue or pull request number Len(repo) + 1.
SourceCreate ==
    /\ pc = "idle"
    /\ Len(repo) < MaxId
    /\ repo' = Append(repo, NewIssue(Len(repo) + 1))
    /\ prev' = NoResult
    /\ UNCHANGED <<file, pc, use_cache, cached_issues, cached_prs, last_number,
                   new_issues, new_prs, count, new_items, all_issues, all_prs,
                   delivered, redelivered, wbuf, save_ret, feed, ckpt, runs,
                   closes, lost>>
    /\ UNCHANGED <<avars, pvars>>

\* The source: somebody closes issue n.
SourceClose(n) ==
    /\ pc = "idle"
    /\ n \in Numbers
    /\ repo[n].state = "open"
    /\ closes < MaxCloses
    /\ closes' = closes + 1
    /\ repo' = [repo EXCEPT ![n].closed_at = datetime(ClosedAt(n)),
                            ![n].state = "closed"]
    /\ prev' = NoResult
    /\ UNCHANGED <<file, pc, use_cache, cached_issues, cached_prs, last_number,
                   new_issues, new_prs, count, new_items, all_issues, all_prs,
                   delivered, redelivered, wbuf, save_ret, feed, ckpt, runs, lost>>
    /\ UNCHANGED <<avars, pvars>>

\* collect_all_data, lines 65-100: load the cache (or not), convert the cached
\* items, compute last_number, open the iterator.  json.load's exception is not
\* caught anywhere: it ends the run.
Start(uc) ==
    /\ pc = "idle"
    /\ runs < MaxRuns
    /\ runs' = runs + 1
    /\ LET loaded == IF uc THEN load_cache(file)
                     ELSE [raised |-> FALSE, data |-> EmptyCache]
       IN  IF loaded.raised
           THEN /\ pc' = "error"
                /\ use_cache' = uc
                /\ UNCHANGED <<cached_issues, cached_prs, last_number>>
           ELSE /\ pc' = "fetch"
                /\ use_cache' = uc
                /\ cached_issues' = ConvertItems(loaded.data.issues)
                /\ cached_prs' = ConvertItems(loaded.data.prs)
                /\ last_number' = LastNumber(loaded.data)
    /\ UNCHANGED <<repo, file, new_issues, new_prs, count, new_items, all_issues,
                   all_prs, delivered, redelivered, wbuf, save_ret, prev, feed,
                   ckpt, closes, lost>>
    /\ UNCHANGED <<avars, pvars>>

\* save_cache, line 59: open(cache_path, 'w') truncates the file; json.dump then
\* writes cache_data chunk by chunk.
BeginSave(cache_data, ret) ==
    /\ file' = <<>>
    /\ wbuf' = json_dump(cache_data)
    /\ save_ret' = ret
    /\ pc' = "saving"

\* The source hands out n in ascending order: n is the lowest number it has not
\* handed out yet, and everything below n has been handed out.
AscendingNext(n) == \A m \in Numbers : (m < n) <=> (m \in delivered)

\* The history of the feed once the source has handed out n.
FeedAfter(n) ==
    IF feed = "repeats" \/ n \in delivered THEN "repeats"
    ELSE IF feed = "ascending" /\ AscendingNext(n) THEN "ascending"
    ELSE "any_order"

\* One iteration of the loop of lines 102-134 over issue number n.
Iterate(n) ==
    LET issue == repo[n]
        item_data == ItemData(issue)
        issues1 == IF issue.pull_request THEN new_issues
                   ELSE Append(new_issues, item_data)
        prs1 == IF issue.pull_request THEN Append(new_prs, item_data)
                ELSE new_prs
    IN  /\ count' = count + 1
        /\ feed' = IF use_cache THEN FeedAfter(n) ELSE feed
        /\ IF Skipped(issue, last_number)
           THEN UNCHANGED <<new_issues, new_prs, new_items, file, wbuf, save_ret, pc>>
           ELSE /\ new_items' = new_items + 1
                /\ new_issues' = issues1
                /\ new_prs' = prs1
                /\ IF SaveDue(new_items + 1) /\ use_cache
                   THEN BeginSave(CurrentCache(cached_issues, issues1,
                                               cached_prs, prs1), "fetch")
                   ELSE UNCHANGED <<file, wbuf, save_ret, pc>>
        /\ UNCHANGED <<repo, use_cache, cached_issues, cached_prs, last_number,
                       all_issues, all_prs, prev, ckpt, runs, closes, lost>>
        /\ UNCHANGED <<avars, pvars>>

\* The iterator hands out an issue it has not handed out in this run.
Fetch(n) ==
    /\ pc = "fetch"
    /\ n \in Numbers \ delivered
    /\ delivered' = delivered \cup {n}
    /\ UNCHANGED redelivered
    /\ Iterate(n)

\* The iterator hands out again an issue of this run (at-least-once delivery).
Refetch(n) ==
    /\ pc = "fetch"
    /\ n \in delivered
    /\ redelivered < MaxRedeliver
    /\ redelivered' = redelivered + 1
    /\ UNCHANGED delivered
    /\ Iterate(n)

\* A return whose final save is not guarded by use_cache.
Finish_Unguarded ==
    /\ pc = "fetch"
    /\ delivered = Numbers
    /\ all_issues' = Combine(cached_issues, new_issues)
    /\ all_prs' = Combine(cached_prs, new_prs)
    /\ BeginSave(FinalCache(all_issues', all_prs'), "done")
    /\ UNCHANGED <<repo, use_cache, cached_issues, cached_prs, last_number,
                   new_issues, new_prs, count, new_items, delivered, redelivered,
                   prev, feed, ckpt, runs, closes, lost>>
    /\ UNCHANGED <<avars, pvars>>

\* Lines 136-151: the iterator is exhausted; combine, save, return.
Finish ==
    /\ pc = "fetch"
    /\ delivered = Numbers
    /\ all_issues' = Combine(cached_issues, new_issues)
    /\ all_prs' = Combine(cached_prs, new_prs)
    /\ IF use_cache
       THEN BeginSave(FinalCache(all_issues', all_prs'), "done")
       ELSE /\ pc' = "done"
            /\ UNCHANGED <<file, wbuf, save_ret>>
    /\ UNCHANGED <<repo, use_cache, cached_issues, cached_prs, last_number,
                   new_issues, new_prs, count, new_items, delivered, redelivered,
                   prev, feed, ckpt, runs, closes, lost>>
    /\ UNCHANGED <<avars, pvars>>

\* save_cache, line 60: json.dump writes its next chunk; after the last one the
\* file is closed and save_cache returns to its caller.
Write ==
    /\ pc = "saving"
    /\ wbuf # <<>>
    /\ file' = Append(file, Head(wbuf))
    /\ wbuf' = Tail(wbuf)
    /\ IF Tail(wbuf) = <<>>
       THEN /\ pc' = save_ret
            /\ ckpt' = LastNumber(json_load(file'))
       ELSE UNCHANGED <<pc, ckpt>>
    /\ UNCHANGED <<repo, use_cache, cached_issues, cached_prs, last_number,
                   new_issues, new_prs, count, new_items, all_issues, all_prs,
                   delivered, redelivered, save_ret, prev, feed, runs, closes,
                   lost>>
    /\ UNCHANGED <<avars, pvars>>

\* The process dies in the middle of a run (killed, power loss, or an exception
\* of the source that nothing catches): its memory is gone, the file stays as
\* it is.
Crash ==
    /\ pc \in {"fetch", "saving"}
    /\ pc' = "idle"
    /\ NoRun
    /\ lost' = (lost \/ (/\ pc = "fetch"
                          /\ use_cache
                          /\ new_items > save_interval
                          /\ ~SaveDue(new_items)))
    /\ UNCHANGED <<repo, file, prev, feed, ckpt, runs, closes>>
    /\ UNCHANGED <<avars, pvars>>

\* The process ends after collect_all_data returned or raised.
Exit ==
    /\ pc \in {"done", "error"}
    /\ pc' = "idle"
    /\ prev' = IF pc = "done" /\ use_cache
               THEN [valid |-> TRUE, issues |-> all_issues, prs |-> all_prs]
               ELSE prev
    /\ NoRun
    /\ UNCHANGED <<repo, file, feed, ckpt, runs, closes, lost>>
    /\ UNCHANGED <<avars, pvars>>

Next ==
    \/ SourceCreate
    \/ \E n \in 1..MaxId : SourceClose(n)
    \/ \E uc \in BOOLEAN : Start(uc)
    \/ \E n \in 1..MaxId : Fetch(n)
    \/ \E n \in 1..MaxId : Refetch(n)
    \/ Finish
    \/ Write
    \/ Crash
    \/ Exit

Spec == Init /\ [][Next]_vars

\* ------------------------------------------------------------ the statistics
\* calculate_cumulative_stats and calculate_monthly_stats, applied to a list of
\* records as collect_all_data returns them.  A datetime is the instant it
\* names; datetimes compare as their instants do.

\* A record of the list (lines 111-118): created at instant c, closed_at x.
Record(n, c, x) ==
    [number |-> n, created_at |-> datetime(c), closed_at |-> x,
     state |-> IF x = None THEN "open" ELSE "closed", is_pr |-> FALSE]

RECURSIVE InsertByCreatedAt(_, _)
\* Where list.sort(key=created_at) puts x among items already sorted: behind
\* every item whose key is not larger (list.sort is stable).
InsertByCreatedAt(sorted, x) ==
    IF sorted = <<>> \/ sorted[Len(sorted)].created_at.t <= x.created_at.t
    THEN Append(sorted, x)
    ELSE Append(InsertByCreatedAt(SubSeq(sorted, 1, Len(sorted) - 1), x),
                sorted[Len(sorted)])

RECURSIVE SortFrom(_, _)
SortFrom(items, sorted) ==
    IF items = <<>> THEN sorted
    ELSE SortFrom(Tail(items), InsertByCreatedAt(sorted, Head(items)))

\* A function that leaves the caller's list as it is.
SortByCreatedAt_Unsorted(items) == items

\* Lines 159 / 210: items_data.sort(key=lambda x: x['created_at']).
SortByCreatedAt(items) == SortFrom(items, <<>>)

\* One element of `events` (line 169): (date, event_type, count_change).
Event(date, event_type, change) ==
    [date |-> date, event_type |-> event_type, change |-> change]

RECURSIVE AddEvents_NoClosures(_)
\* A loop that forgets the closing events.
AddEvents_NoClosures(items) ==
    IF items = <<>> THEN <<>>
    ELSE <<Event(Head(items).created_at, "created", 1)>>
            \o AddEvents_NoClosures(Tail(items))

RECURSIVE AddEvents(_)
\* Lines 173-176: per item its creation event and, when closed_at is set, its
\* closing event right behind it.
AddEvents(items) ==
    IF items = <<>> THEN <<>>
    ELSE <<Event(Head(items).created_at, "created", 1)>>
            \o (IF Truthy(Head(items).closed_at)
                THEN <<Event(Head(items).closed_at, "closed", -1)>>
                ELSE <<>>)
            \o AddEvents(Tail(items))

\* The order of two events under a sort of the whole tuples: by date, then by
\* event_type as strings ('closed' < 'created'), then by count_change.
TupleBefore(e, f) ==
    \/ e.date.t < f.date.t
    \/ e.date.t = f.date.t /\ e.event_type = "closed" /\ f.event_type = "created"

RECURSIVE InsertByTuple(_, _)
InsertByTuple(sorted, x) ==
    IF sorted = <<>> \/ ~TupleBefore(x, sorted[Len(sorted)])
    THEN Append(sorted, x)
    ELSE Append(InsertByTuple(SubSeq(sorted, 1, Len(sorted) - 1), x),
                sorted[Len(sorted)])

RECURSIVE SortEventsFrom_Tuple(_, _)
\* events.sort() without the key: simultaneous closings go before creations.
SortEventsFrom_Tuple(evs, sorted) ==
    IF evs = <<>> THEN sorted
    ELSE SortEventsFrom_Tuple(Tail(evs), InsertByTuple(sorted, Head(evs)))

RECURSIVE InsertByDate(_, _)
\* Where events.sort(key=date) puts x: behind every event whose date is not
\* later.
InsertByDate(sorted, x) ==
    IF sorted = <<>> \/ sorted[Len(sorted)].date.t <= x.date.t
    THEN Append(sorted, x)
    ELSE Append(InsertByDate(SubSeq(sorted, 1, Len(sorted) - 1), x),
                sorted[Len(sorted)])

RECURSIVE SortEventsFrom(_, _)
\* Line 179: events.sort(key=lambda x: x[0]), the events sorted so far in
\* `sorted`.
SortEventsFrom(evs, sorted) ==
    IF evs = <<>> THEN sorted
    ELSE SortEventsFrom(Tail(evs), InsertByDate(sorted, Head(evs)))

RECURSIVE CumulativeCreated(_, _)
\* Lines 182-186: total_created after each item.
CumulativeCreated(items, total_created) ==
    IF items = <<>> THEN <<>>
    ELSE <<total_created + 1>> \o CumulativeCreated(Tail(items), total_created + 1)

\* Lines 185 / 196: the dates of a list of items or of events.
CreatedDates(items) == [i \in 1..Len(items) |-> items[i].created_at]
EventDates(evs) == [i \in 1..Len(evs) |-> evs[i].date]

\* An update that has lost its branch for the closing events.
Apply_CreatedOnly(current_open, event) ==
    IF event.event_type = "created" THEN current_open + event.change
    ELSE current_open

\* Lines 191-194: current_open after one event.
Apply(current_open, event) ==
    IF event.event_type = "created" THEN current_open + event.change
    ELSE IF event.event_type = "closed" THEN current_open + event.change
    ELSE current_open

RECURSIVE OpenOverTime(_, _)
\* Lines 189-197: current_open after each event.
OpenOverTime(evs, current_open) ==
    IF evs = <<>> THEN <<>>
    ELSE <<Apply(current_open, Head(evs))>>
            \o OpenOverTime(Tail(evs), Apply(current_open, Head(evs)))

\* A month_start that keeps the day of the month.
MonthStart_SameDay(date) == date

\* Line 218: item_date.replace(day=1, hour=0, minute=0, second=0, microsecond=0).
MonthStart(date) == datetime(date.t - (date.t % MonthLen))

\* Lines 213-220: monthly_counts after the loop, as its keys and the count
\* held under a key.
MonthKeys(items) == {MonthStart(items[i].created_at) : i \in DOMAIN items}
MonthCount(items, month) ==
    Cardinality({i \in DOMAIN items : MonthStart(items[i].created_at) = month})

RECURSIVE Sorted(_)
\* Line 223: sorted(monthly_counts.keys()).
Sorted(keys) ==
    IF keys = {} THEN <<>>
    ELSE LET first == CHOOSE k \in keys : \A j \in keys : k.t <= j.t
         IN  <<first>> \o Sorted(keys \ {first})

\* What both functions return before they are called.
NoSeries ==
    /\ events = <<>>
    /\ created_dates = <<>>
    /\ created_counts = <<>>
    /\ open_dates = <<>>
    /\ open_counts = <<>>
    /\ months = <<>>
    /\ counts = <<>>

\* The values a closed_at field holds.
ClosedAtValues == {None} \cup {datetime(t) : t \in 0..MaxTime}

\* The caller has built a list of at most MaxItems records, in any order of
\* their dates, closed or not, and has called nothing yet.
StatsInit ==
    /\ CollectorInit
    /\ NoPlots
    /\ \E n \in 0..MaxItems :
         \E c \in [1..n -> 0..MaxTime], x \in [1..n -> ClosedAtValues] :
            items_data = [i \in 1..n |-> Record(i, c[i], x[i])]
    /\ items_in = items_data
    /\ called = {}
    /\ NoSeries

\* calculate_cumulative_stats(items_data, item_type), lines 154-199.
calculate_cumulative_stats ==
    /\ "cumulative" \notin called
    /\ called' = called \cup {"cumulative"}
    /\ items_data' = SortByCreatedAt(items_data)
    /\ events' = SortEventsFrom(AddEvents(items_data'), <<>>)
    /\ created_dates' = CreatedDates(items_data')
    /\ created_counts' = CumulativeCreated(items_data', 0)
    /\ open_dates' = EventDates(events')
    /\ open_counts' = OpenOverTime(events', 0)
    /\ UNCHANGED <<months, counts, items_in>>
    /\ UNCHANGED <<cvars, pvars>>

\* calculate_monthly_stats(items_data, item_type), lines 202-226.
calculate_monthly_stats ==
    /\ "monthly" \notin called
    /\ called' = called \cup {"monthly"}
    /\ IF items_data = <<>>
       THEN /\ months' = <<>>
            /\ counts' = <<>>
            /\ UNCHANGED items_data
       ELSE /\ items_data' = SortByCreatedAt(items_data)
            /\ months' = Sorted(MonthKeys(items_data'))
            /\ counts' = [i \in 1..Len(months') |-> MonthCount(items_data', months'[i])]
    /\ UNCHANGED <<events, created_dates, created_counts, open_dates, open_counts,
                   items_in>>
    /\ UNCHANGED <<cvars, pvars>>

StatsNext ==
    \/ calculate_cumulative_stats
    \/ calculate_monthly_stats

StatsSpec == StatsInit /\ [][StatsNext]_vars

\* ------------------------------------------------------------ generate_plots
\* The traversal of generate_plots.py, lines 70-121, one commit after the other
\* and, inside a commit, one modified file and one co-author after the other.

\* The modifications a commit holds: change_type and new_path.
Modification(change_type, new_path) ==
    [change_type |-> change_type, new_path |-> new_path]

ModificationValues ==
    {Modification("ADD", "multiqc/modules/fastqc/fastqc.py"),
     Modification("ADD", "multiqc/modules/fastqc/__init__.py"),
     Modification("ADD", "multiqc/modules/star.py"),
     Modification("MODIFY", "multiqc/modules/kraken/kraken.py"),
     Modification("ADD", "multiqc/utils/report.py"),
     Modification("ADD", "docs/modules/star.md")}

\* Line 74: fnmatch.fnmatch(new_path, "multiqc/*").
fnmatch(new_path) ==
    new_path \in {"multiqc/modules/fastqc/fastqc.py",
                  "multiqc/modules/fastqc/__init__.py",
                  "multiqc/modules/star.py",
                  "multiqc/modules/kraken/kraken.py",
                  "multiqc/utils/report.py"}

NoMatch == [matched |-> FALSE, group |-> ""]
Match(group) == [matched |-> TRUE, group |-> group]

\* Lines 75-77: re.match(r"multiqc/modules/([^/\.]+)", new_path).
mod_match(new_path) ==
    CASE new_path = "multiqc/modules/fastqc/fastqc.py" -> Match("fastqc")
      [] new_path = "multiqc/modules/fastqc/__init__.py" -> Match("fastqc")
      [] new_path = "multiqc/modules/star.py" -> Match("star")
      [] new_path = "multiqc/modules/kraken/kraken.py" -> Match("kraken")
      [] OTHER -> NoMatch

\* The committers, and the lines a commit message is made of.
CommitterNames == {"Ann Lee", "Cy Ng"}

MessageLines ==
    {"Fix the docs",
     "Co-authored-by: Di Wu <di@example.org>",
     "Co-authored-by: Ann Lee <ann@example.org>",
     "co-authored-by: Bo <bo@example.org>",
     "Co-authored-by: renovate[bot] <29139614+renovate[bot]@users.noreply.github.com>"}

\* Lines 27-28: what coauthor_pattern captures in one line (MULTILINE,
\* IGNORECASE); the pattern leaves no blank around the captured name.
coauthor_pattern(line) ==
    CASE line = "Co-authored-by: Di Wu <di@example.org>" -> Match("Di Wu")
      [] line = "Co-authored-by: Ann Lee <ann@example.org>" -> Match("Ann Lee")
      [] line = "co-authored-by: Bo <bo@example.org>" -> Match("Bo")
      [] line = "Co-authored-by: renovate[bot] <29139614+renovate[bot]@users.noreply.github.com>"
            -> Match("renovate[bot]")
      [] OTHER -> NoMatch

\* Lines 37-39: any(bot in name.lower() for bot in [...]).
IsBot(name) == name \in {"renovate[bot]"}

\* Line 40: name.startswith("Co-authored-by").
StartsWithTrailer(name) == name \in {}

\* Lines 34-41: the names extract_coauthors keeps.
Kept(name) ==
    /\ name # ""
    /\ Len(name) > 2
    /\ ~IsBot(name)
    /\ ~StartsWithTrailer(name)

RECURSIVE extract_coauthors(_)
\* extract_coauthors(commit_msg), lines 23-44, the message as its lines.
extract_coauthors(commit_msg) ==
    IF commit_msg = <<>> THEN <<>>
    ELSE LET found == coauthor_pattern(Head(commit_msg))
         IN  (IF found.matched /\ Kept(found.group) THEN <<found.group>> ELSE <<>>)
                \o extract_coauthors(Tail(commit_msg))

\* len(d) of a dict.
len(d) == Cardinality(DOMAIN d)

\* d[key] = value of a dict.
SetItem(d, key, value) == [k \in DOMAIN d \cup {key} |-> IF k = key THEN value ELSE d[k]]

\* A test that takes every name for a new one.
NotIn_Always(key, d) == TRUE

\* Lines 80 / 87 / 113: key not in d.
NotIn(key, d) == key \notin DOMAIN d

\* The lists of at most n elements of S.
ListsUpTo(S, n) == UNION {[1..k -> S] : k \in 0..n}

\* The commit shows a name of `shown` again, at another committer date.
Again(kind, name, shown) ==
    IF name \in DOMAIN shown /\ shown[name] # commit.committer_date
    THEN reseen \cup {kind} ELSE reseen

\* The history of first showings after `name` is shown by the commit.
ShownAfter(name, shown) ==
    IF name \in DOMAIN shown THEN shown ELSE SetItem(shown, name, commit.committer_date)

PlotsInit == CollectorInit /\ NoStats /\ NoPlots

\* Line 70: traverse_commits() yields the next commit.
TraverseCommit(date, name) ==
    /\ ppc = "next"
    /\ traversed < MaxCommits
    /\ traversed' = traversed + 1
    /\ commit' = [committer_date |-> datetime(date), committer |-> name]
    /\ visited' = 0
    /\ ppc' = "files"
    /\ UNCHANGED <<coauthors, modules, mods_plot_x, mods_plot_y, contributors,
                   contributors_plot_x, contributors_plot_y, mods_shown,
                   names_shown, reseen>>
    /\ UNCHANGED <<cvars, avars>>

\* Lines 72-84: one iteration of the loop over commit.modified_files, which
\* hands out `modification`.
ModifiedFile(modification) ==
    /\ ppc = "files"
    /\ visited < MaxFiles
    /\ visited' = visited + 1
    /\ LET found == mod_match(modification.new_path)
           adds == /\ modification.change_type = "ADD"
                   /\ fnmatch(modification.new_path)
                   /\ found.matched
           mod == found.group
       IN  /\ IF adds /\ NotIn(mod, modules)
              THEN /\ modules' = SetItem(modules, mod, json_default(commit.committer_date))
                   /\ mods_plot_x' = Append(mods_plot_x, commit.committer_date)
                   /\ mods_plot_y' = Append(mods_plot_y, len(modules'))
              ELSE UNCHANGED <<modules, mods_plot_x, mods_plot_y>>
           /\ mods_shown' = IF adds THEN ShownAfter(mod, mods_shown) ELSE mods_shown
           /\ reseen' = IF adds THEN Again("module", mod, mods_shown) ELSE reseen
    /\ UNCHANGED <<ppc, commit, coauthors, contributors, contributors_plot_x,
                   contributors_plot_y, traversed, names_shown>>
    /\ UNCHANGED <<cvars, avars>>

\* Lines 87-111: the loop over the files is over; the committer of the commit,
\* then extract_coauthors(commit.msg), the message being `msg`.
Committer(msg) ==
    /\ ppc = "files"
    /\ IF NotIn(commit.committer, contributors)
       THEN /\ contributors' = SetItem(contributors, commit.committer,
                                       json_default(commit.committer_date))
            /\ contributors_plot_x' = Append(contributors_plot_x, commit.committer_date)
            /\ contributors_plot_y' = Append(contributors_plot_y, len(contributors'))
       ELSE UNCHANGED <<contributors, contributors_plot_x, contributors_plot_y>>
    /\ names_shown' = ShownAfter(commit.committer, names_shown)
    /\ reseen' = Again("contributor", commit.committer, names_shown)
    /\ coauthors' = extract_coauthors(msg)
    /\ ppc' = IF coauthors' = <<>> THEN "next" ELSE "coauthors"
    /\ UNCHANGED <<commit, visited, modules, mods_plot_x, mods_plot_y,
                   traversed, mods_shown>>
    /\ UNCHANGED <<cvars, avars>>

\* Lines 112-121: one iteration of the loop over the co-authors.
Coauthor ==
    /\ ppc = "coauthors"
    /\ coauthors # <<>>
    /\ LET coauthor == Head(coauthors)
       IN  /\ IF NotIn(coauthor, contributors)
              THEN /\ contributors' = SetItem(contributors, coauthor,
                                              json_default(commit.committer_date))
                   /\ contributors_plot_x' = Append(contributors_plot_x,
                                                    commit.committer_date)
                   /\ contributors_plot_y' = Append(contributors_plot_y,
                                                    len(contributors'))
              ELSE UNCHANGED <<contributors, contributors_plot_x, contributors_plot_y>>
           /\ names_shown' = ShownAfter(coauthor, names_shown)
           /\ reseen' = Again("contributor", coauthor, names_shown)
    /\ coauthors' = Tail(coauthors)
    /\ ppc' = IF Tail(coauthors) = <<>> THEN "next" ELSE "coauthors"
    /\ UNCHANGED <<commit, visited, modules, mods_plot_x, mods_plot_y,
                   traversed, mods_shown>>
    /\ UNCHANGED <<cvars, avars>>

PlotsNext ==
    \/ \E date \in 0..MaxDate, name \in CommitterNames : TraverseCommit(date, name)
    \/ \E modification \in ModificationValues : ModifiedFile(modification)
    \/ \E msg \in ListsUpTo(MessageLines, MaxLines) : Committer(msg)
    \/ Coauthor

PlotsSpec == PlotsInit /\ [][PlotsNext]_vars

\* ------------------------------------------------------------ vocabulary
\* How often number n occurs among the items of two lists.
Occurrences(n, issues, prs) ==
    Cardinality({i \in DOMAIN issues : issues[i].number = n})
        + Cardinality({i \in DOMAIN prs : prs[i].number = n})

NumbersOf(issues, prs) ==
    {issues[i].number : i \in DOMAIN issues} \cup {prs[i].number : i \in DOMAIN prs}

NoDuplicate(issues, prs) ==
    \A n \in NumbersOf(issues, prs) : Occurrences(n, issues, prs) <= 1

\* The file holds a complete snapshot.
FileComplete == file # Absent /\ JsonValid(file)

\* What a reader of the file gets: the records of a complete snapshot, and
\* nothing from a missing or a partly written file.
Persisted == IF FileComplete THEN json_load(file) ELSE EmptyCache

MaxOf(S) == CHOOSE m \in S \cup {0} : \A x \in S \cup {0} : x <= m

\* The position-th record of `persisted` is `item`.
HeldAt(persisted, position, item) ==
    position <= Len(persisted) /\ persisted[position] = json_item(item)

\* The newly accumulated records of the running collect that the file does not hold.
NotPersisted ==
    Cardinality({i \in DOMAIN new_issues :
                    ~HeldAt(Persisted.issues, Len(cached_issues) + i, new_issues[i])})
        + Cardinality({i \in DOMAIN new_prs :
                    ~HeldAt(Persisted.prs, Len(cached_prs) + i, new_prs[i])})

Running == pc \in {"fetch", "saving"}

\* ------------------------------------------------------------ claims

\* C1 (as claimed): when a use_cache run has completed and the program is run
\* again with use_cache against the unchanged source, the second run accumulates
\* no new record, returns and persists exactly what the first returned, and no
\* number occurs twice in the result.
C1_IdempotentResume ==
    (pc = "done" /\ use_cache /\ prev.valid) =>
        /\ new_items = 0
        /\ all_issues = prev.issues
        /\ all_prs = prev.prs
        /\ ConvertItems(Persisted.issues) = prev.issues
        /\ ConvertItems(Persisted.prs) = prev.prs
        /\ NoDuplicate(all_issues, all_prs)

\* C1, the part the duplicates leave standing: the second run accumulates no new
\* record and returns and persists exactly what the first returned.
C1_RerunSameResult ==
    (pc = "done" /\ use_cache /\ prev.valid) =>
        /\ new_items = 0
        /\ all_issues = prev.issues
        /\ all_prs = prev.prs
        /\ ConvertItems(Persisted.issues) = prev.issues
        /\ ConvertItems(Persisted.prs) = prev.prs

\* C2: when every use_cache run so far was fed in strictly ascending number
\* order, a use_cache run that completes returns every issue of the source
\* exactly once and nothing else, whatever runs died before it and wherever
\* they died.
C2_CrashResumeComplete ==
    (pc = "done" /\ use_cache /\ feed = "ascending") =>
        /\ NumbersOf(all_issues, all_prs) = Numbers
        /\ \A n \in Numbers : Occurrences(n, all_issues, all_prs) = 1

\* C2 witness: a completed use_cache run, all runs fed in ascending order, after
\* a run that died holding fetched records its last periodic save did not hold;
\* this run accumulated records again.
C2_Witness ==
    pc = "done" /\ use_cache /\ feed = "ascending" /\ lost /\ new_items > 0 /\ last_number > 0

\* C3 (as claimed, taken for runs that are handed each issue once): whatever
\* the order of delivery and wherever earlier runs died, a use_cache run that
\* completes returns every issue of the source.
C3_OrderTolerance ==
    (pc = "done" /\ use_cache /\ feed # "repeats") =>
        Numbers \subseteq NumbersOf(all_issues, all_prs)

\* C4 (as claimed): after a completed use_cache run, every returned record whose
\* issue is closed at the source carries that closed_at.
C4_ClosureObserved ==
    (pc = "done" /\ use_cache) =>
        /\ \A i \in DOMAIN all_issues :
              Truthy(repo[all_issues[i].number].closed_at) =>
                  all_issues[i].closed_at = repo[all_issues[i].number].closed_at
        /\ \A i \in DOMAIN all_prs :
              Truthy(repo[all_prs[i].number].closed_at) =>
                  all_prs[i].closed_at = repo[all_prs[i].number].closed_at

\* C5 (as claimed): the accumulated records, the returned records and every
\* complete snapshot in the file hold each number at most once.
C5_UniqueIds ==
    /\ NoDuplicate(cached_issues \o new_issues, cached_prs \o new_prs)
    /\ NoDuplicate(all_issues, all_prs)
    /\ NoDuplicate(Persisted.issues, Persisted.prs)

\* C6: whenever the file holds a complete snapshot, the last_number a load
\* computes from it is the largest number among its issues and PRs, and it is
\* the checkpoint recorded when that save completed; the checkpoint never
\* decreases from one completed save to the next.
C6_MonotonicCheckpoint ==
    /\ [](FileComplete =>
            /\ LastNumber(json_load(file)) = MaxOf(NumbersOf(Persisted.issues, Persisted.prs))
            /\ ckpt = LastNumber(json_load(file)))
    /\ [][ckpt' >= ckpt]_vars

\* C6 witness: a second or later run completed its final save with a checkpoint
\* above the one it loaded, which was itself above 0 and held by a PR.
C6_Witness ==
    /\ pc = "done" /\ use_cache /\ FileComplete
    /\ last_number > 0
    /\ ckpt > last_number
    /\ NumberFold(Persisted.issues, 0) < ckpt

\* C7 (as claimed, taken for use_cache runs fed in ascending order only): at
\* every point of a running collect at most save_interval of the newly
\* accumulated records are missing from what the file holds.
C7_BoundedLoss ==
    (Running /\ use_cache /\ feed = "ascending") => NotPersisted <= save_interval

\* C8 (as claimed): whenever collect_all_data has returned, the file holds a
\* complete snapshot whose records are exactly the returned ones.
C8_FinalSaveAlways ==
    pc = "done" =>
        /\ FileComplete
        /\ ConvertItems(Persisted.issues) = all_issues
        /\ ConvertItems(Persisted.prs) = all_prs

\* C8 (amended): whenever collect_all_data has returned from a run with
\* use_cache true, the file holds a complete snapshot whose records are exactly
\* the returned ones, cached and new.
C8_FinalSave ==
    (pc = "done" /\ use_cache) =>
        /\ FileComplete
        /\ ConvertItems(Persisted.issues) = all_issues
        /\ ConvertItems(Persisted.prs) = all_prs
        /\ all_issues = cached_issues \o new_issues
        /\ all_prs = cached_prs \o new_prs

\* C8 witness: a use_cache run returned with cached records and a last batch of
\* new records that is no multiple of save_interval.
C8_Witness ==
    /\ pc = "done" /\ use_cache
    /\ cached_issues # <<>>
    /\ new_items > 0 /\ ~SaveDue(new_items)

\* The file exists and json.load rejects it.
Corrupt == file # Absent /\ ~JsonValid(file)

\* C9: a use_cache run that finds no file starts from no cached records and
\* last_number 0; a use_cache run that finds a file json.load rejects ends in the
\* error and leaves the file as it is, and so does whatever follows the error;
\* no step outside save_cache changes a rejected file.
C9_LoadOutcomes ==
    /\ []((pc = "fetch" /\ use_cache /\ file = Absent) =>
            (cached_issues = <<>> /\ cached_prs = <<>> /\ last_number = 0))
    /\ [][(pc = "idle" /\ pc' # "idle" /\ use_cache' /\ Corrupt) =>
            (pc' = "error" /\ file' = file)]_vars
    /\ [][(pc = "idle" /\ pc' # "idle" /\ use_cache' /\ ~Corrupt) => pc' = "fetch"]_vars
    /\ [][pc = "error" => (pc' = "idle" /\ file' = file)]_vars
    /\ [][(Corrupt /\ pc # "saving") => file' = file]_vars

\* C9 witness: a use_cache run ended in the error on a partly written file that
\* holds records.
C9_Witness ==
    pc = "error" /\ use_cache /\ Corrupt /\ Len(file) > 1

\* C10 (as claimed): at every instant the file is missing or holds a complete
\* snapshot.
C10_AtomicSave == file = Absent \/ JsonValid(file)

\* ------------------------------------------------------------ vocabulary of the statistics
CumulativeReturned == "cumulative" \in called
MonthlyReturned == "monthly" \in called

\* The record is closed before it is created.
Inverted(item) == Truthy(item.closed_at) /\ item.closed_at.t < item.created_at.t

\* How many records of the list are closed, and how many are not.
ClosedIn(items) == Cardinality({i \in DOMAIN items : Truthy(items[i].closed_at)})
OpenIn(items) == Cardinality({i \in DOMAIN items : ~Truthy(items[i].closed_at)})

\* How many records of the list are created, or closed, at or before instant t.
CreatedBy(items, t) == Cardinality({i \in DOMAIN items : items[i].created_at.t <= t})
ClosedBy(items, t) ==
    Cardinality({i \in DOMAIN items :
                    Truthy(items[i].closed_at) /\ items[i].closed_at.t <= t})

\* The dates of a series do not go back.
NonDecreasing(dates) ==
    \A i \in DOMAIN dates : \A j \in DOMAIN dates : i < j => dates[i].t <= dates[j].t

\* C11 (as claimed): calculate_cumulative_stats returns no series for a list that
\* holds a record closed before it was created; it reports the violation.
C11_NegativeBalanceDetected ==
    CumulativeReturned => \A i \in DOMAIN items_in : ~Inverted(items_in[i])

\* C12: for a non-empty list, the last count of the open series is the number of
\* records that are not closed, and the open series has one point per record
\* plus one per closed record.
C12_OpenBalanceConservation ==
    (CumulativeReturned /\ items_in # <<>>) =>
        /\ Len(open_counts) = Len(items_in) + ClosedIn(items_in)
        /\ Len(open_dates) = Len(open_counts)
        /\ open_counts[Len(open_counts)] = OpenIn(items_in)

\* C12 witness: the series of a list of three records, closed ones and open
\* ones, one of them closed before it was created.
C12_Witness ==
    /\ CumulativeReturned
    /\ Len(items_in) = 3
    /\ ClosedIn(items_in) = 2
    /\ \E i \in DOMAIN items_in : Inverted(items_in[i])

\* C13: the created series has one point per record, its counts are 1, 2, ...,
\* and its dates are the records' created_at values in non-decreasing order.
C13_CumulativeLength ==
    CumulativeReturned =>
        /\ Len(created_dates) = Len(items_in)
        /\ created_counts = [i \in 1..Len(items_in) |-> i]
        /\ NonDecreasing(created_dates)
        /\ \A t \in 0..MaxTime :
              Cardinality({i \in DOMAIN created_dates : created_dates[i] = datetime(t)})
                  = Cardinality({i \in DOMAIN items_in : items_in[i].created_at = datetime(t)})

\* C13 witness: the series of three records handed over latest first, two of
\* them created at the same instant.
C13_Witness ==
    /\ CumulativeReturned
    /\ Len(items_in) = 3
    /\ items_in[1].created_at.t > items_in[2].created_at.t
    /\ items_in[2].created_at.t = items_in[3].created_at.t

RECURSIVE Sum(_)
Sum(numbers) == IF numbers = <<>> THEN 0 ELSE Head(numbers) + Sum(Tail(numbers))

\* The instant is the first one of its calendar month.
FirstOfMonth(t) == t % MonthLen = 0

\* Instant t lies in the calendar month that starts at instant first.
InMonth(t, first) == first <= t /\ t < first + MonthLen

\* C14: the monthly counts sum to the number of records; every key is the first
\* instant of a calendar month in which some record was created; every count is
\* positive; the keys ascend strictly; the empty list gives the empty series.
C14_MonthlyTotal ==
    MonthlyReturned =>
        /\ Len(months) = Len(counts)
        /\ Sum(counts) = Len(items_in)
        /\ \A k \in DOMAIN months :
              /\ FirstOfMonth(months[k].t)
              /\ \E i \in DOMAIN items_in : InMonth(items_in[i].created_at.t, months[k].t)
              /\ counts[k] > 0
        /\ \A j \in DOMAIN months : \A k \in DOMAIN months :
              j < k => months[j].t < months[k].t
        /\ items_in = <<>> => (months = <<>> /\ counts = <<>>)

\* C14 witness: the monthly series of three records of two months, handed over
\* later month first, two of them created at different instants of one month,
\* one of these not at the month's first instant.
C14_Witness ==
    /\ MonthlyReturned
    /\ Len(items_in) = 3
    /\ Len(months) = 2
    /\ items_in[1].created_at.t > items_in[3].created_at.t
    /\ items_in[2].created_at.t # items_in[3].created_at.t
    /\ MonthStart(items_in[2].created_at) = MonthStart(items_in[3].created_at)
    /\ \E i \in DOMAIN items_in : ~FirstOfMonth(items_in[i].created_at.t)

\* The lists that hold the records of `items` in some order.
Orderings(items) ==
    {[i \in DOMAIN items |-> items[f[i]]] :
        f \in {g \in [DOMAIN items -> DOMAIN items] :
                  \A i \in DOMAIN items : \A j \in DOMAIN items :
                      g[i] = g[j] => i = j}}

\* The open series calculate_cumulative_stats returns for a list.
OpenSeriesOf(items) ==
    LET evs == SortEventsFrom(AddEvents(SortByCreatedAt(items)), <<>>)
    IN  [dates |-> EventDates(evs), open |-> OpenOverTime(evs, 0)]

\* C15 (as claimed): the series the statistics functions have returned are the
\* ones they return for every other ordering of the same records.
C15_OrderIndependent ==
    /\ CumulativeReturned =>
          \A other \in Orderings(items_in) :
              /\ created_dates = CreatedDates(SortByCreatedAt(other))
              /\ created_counts = CumulativeCreated(SortByCreatedAt(other), 0)
              /\ open_dates = OpenSeriesOf(other).dates
              /\ open_counts = OpenSeriesOf(other).open
    /\ MonthlyReturned =>
          \A other \in Orderings(items_in) :
              months = Sorted(MonthKeys(SortByCreatedAt(other)))

\* C16 (as claimed): after a statistics function has returned, the caller's
\* list holds the same records in the same order as before the call.
C16_InputUnchanged == called # {} => items_data = items_in

\* collect_all_data is running or has returned.
InRun == pc \in {"fetch", "saving", "done"}

\* The record is what line 111-118 built from issue number item.number, when
\* the issue was open or as it is at the source now.
AsCollected(item) ==
    /\ item.number \in Numbers
    /\ \/ item = ItemData(repo[item.number])
       \/ item = ItemData(NewIssue(item.number))

\* C17: in a run, last_number is the largest number among the cached issues and
\* PRs (0 when there are none) and stays what the load computed; a record the
\* source hands out is accumulated exactly when its number is above last_number;
\* an accumulated record goes to the PR list when it is a pull request and to the
\* issue list otherwise, never to both; the cached records are returned as they
\* were collected and saved, in front of the new ones.
C17_SkipAndClassify ==
    /\ [](InRun =>
            /\ last_number = MaxOf(NumbersOf(cached_issues, cached_prs))
            /\ NumbersOf(new_issues, new_prs) = {n \in delivered : n > last_number}
            /\ Len(new_issues) + Len(new_prs) = new_items
            /\ \A i \in DOMAIN new_issues :
                  /\ ~repo[new_issues[i].number].pull_request
                  /\ AsCollected(new_issues[i])
            /\ \A i \in DOMAIN new_prs :
                  /\ repo[new_prs[i].number].pull_request
                  /\ AsCollected(new_prs[i])
            /\ \A i \in DOMAIN cached_issues : AsCollected(cached_issues[i])
            /\ \A i \in DOMAIN cached_prs : AsCollected(cached_prs[i])
            /\ pc = "done" =>
                  /\ all_issues = cached_issues \o new_issues
                  /\ all_prs = cached_prs \o new_prs)
    /\ [][(pc = "fetch" /\ delivered' # delivered) =>
            \A n \in delivered' \ delivered :
                /\ (new_items' = new_items + 1) <=> (n > last_number)
                /\ (new_items' = new_items) <=> (n <= last_number)
                /\ (n > last_number /\ repo[n].pull_request) =>
                      (new_prs' = Append(new_prs, ItemData(repo[n]))
                          /\ new_issues' = new_issues)
                /\ (n > last_number /\ ~repo[n].pull_request) =>
                      (new_issues' = Append(new_issues, ItemData(repo[n]))
                          /\ new_prs' = new_prs)]_vars
    /\ [][(pc = "fetch" /\ redelivered' = redelivered + 1) =>
            /\ (\A n \in delivered : n > last_number) => new_items' = new_items + 1
            /\ (\A n \in delivered : n <= last_number) => new_items' = new_items]_vars
    /\ [][(InRun /\ InRun') =>
            /\ last_number' = last_number
            /\ cached_issues' = cached_issues
            /\ cached_prs' = cached_prs]_vars
    /\ [][(pc = "idle" /\ pc' = "fetch" /\ use_cache') =>
            /\ IssueToks(cached_issues') = SelectSeq(file, IsIssueTok)
            /\ PrToks(cached_prs') = SelectSeq(file, IsPrTok)]_vars

\* C17 witness: a second run that loaded last_number 2 from a cache holding a
\* closed record, was handed issues 1, 2 and 3, accumulated issue 3 alone and
\* returned three records.
C17_Witness ==
    /\ pc = "done" /\ use_cache
    /\ last_number = 2
    /\ count = 3
    /\ new_items = 1
    /\ Len(all_issues) + Len(all_prs) = 3
    /\ \E i \in DOMAIN cached_issues : Truthy(cached_issues[i].closed_at)

\* C18: when no record of the list is closed before it was created, no count of
\* the open series is negative.
C18_NonNegativeBalance ==
    (CumulativeReturned /\ \A i \in DOMAIN items_in : ~Inverted(items_in[i])) =>
        \A k \in DOMAIN open_counts : open_counts[k] >= 0

\* C18 witness: the series of a list without a record closed before it was
\* created, in which a record is closed at the instant it was created, another
\* record is created at that instant too, and a third is closed at an instant
\* a later record is created at.
C18_Witness ==
    /\ CumulativeReturned
    /\ \A i \in DOMAIN items_in : ~Inverted(items_in[i])
    /\ \E i \in DOMAIN items_in : \E j \in DOMAIN items_in :
          /\ i # j
          /\ items_in[i].closed_at = items_in[i].created_at
          /\ items_in[j].created_at = items_in[i].created_at
    /\ \E i \in DOMAIN items_in : \E j \in DOMAIN items_in :
          /\ items_in[i].created_at.t < items_in[j].created_at.t
          /\ items_in[i].closed_at = items_in[j].created_at

\* The count of the open series before point k.
OpenBefore(k) == IF k = 1 THEN 0 ELSE open_counts[k - 1]

\* C19: the open series has one point per event, in non-decreasing date order;
\* each count is the one before it (0 before the first) plus 1 at a creation and
\* minus 1 at a closing; and the count after the last event of an instant is the
\* number of records created at or before it minus the number closed at or
\* before it.
C19_SweepShape ==
    CumulativeReturned =>
        /\ Len(open_counts) = Len(events)
        /\ Len(open_dates) = Len(events)
        /\ NonDecreasing(open_dates)
        /\ \A k \in DOMAIN events :
              /\ open_dates[k] = events[k].date
              /\ events[k].event_type \in {"created", "closed"}
              /\ events[k].event_type = "created" => open_counts[k] = OpenBefore(k) + 1
              /\ events[k].event_type = "closed" => open_counts[k] = OpenBefore(k) - 1
        /\ Cardinality({k \in DOMAIN events : events[k].event_type = "created"})
              = Len(items_in)
        /\ Cardinality({k \in DOMAIN events : events[k].event_type = "closed"})
              = ClosedIn(items_in)
        /\ \A k \in DOMAIN open_dates :
              (k = Len(open_dates) \/ open_dates[k + 1] # open_dates[k]) =>
                  open_counts[k] = CreatedBy(items_in, open_dates[k].t)
                                      - ClosedBy(items_in, open_dates[k].t)

\* C19 witness: the series of three records handed over out of date order, with
\* a closing and a creation of different records at one instant, and a record
\* closed before it was created.
C19_Witness ==
    /\ CumulativeReturned
    /\ Len(items_in) = 3
    /\ items_in[1].created_at.t > items_in[2].created_at.t
    /\ \E i \in DOMAIN items_in : \E j \in DOMAIN items_in :
          i # j /\ items_in[i].closed_at = items_in[j].created_at
    /\ \E i \in DOMAIN items_in : Inverted(items_in[i])

\* C20: a run with use_cache false starts from no cached records and
\* last_number 0 whatever the file holds, also when json.load would reject it;
\* it accumulates every record it is handed; it never enters save_cache; and no
\* step of it changes the file.
C20_NoCacheIsolated ==
    /\ []((InRun /\ ~use_cache) =>
            /\ cached_issues = <<>>
            /\ cached_prs = <<>>
            /\ last_number = 0
            /\ new_items = count
            /\ Len(new_issues) + Len(new_prs) = count
            /\ NumbersOf(new_issues, new_prs) = delivered
            /\ pc # "saving")
    /\ [](pc = "error" => use_cache)
    /\ [][(pc = "idle" /\ pc' # "idle" /\ ~use_cache') =>
            (pc' = "fetch" /\ file' = file)]_vars
    /\ [][(InRun /\ ~use_cache) => file' = file]_vars

\* C20 witness: a run with use_cache false has returned more records than
\* save_interval, one of them handed out twice, while the file is one that
\* json.load rejects.
C20_Witness ==
    /\ pc = "done" /\ ~use_cache
    /\ Corrupt
    /\ new_items > save_interval
    /\ redelivered > 0

\* ------------------------------------------------------------ vocabulary of generate_plots
\* The dict d, filled as the names of `shown` were first shown, and its plotted
\* points: d holds exactly the names shown, each with the date of the first
\* commit that showed it, as text; the plotted counts are 1, 2, ..., one per
\* name; the plotted dates are those first dates.
FirstSeen(d, plot_x, plot_y, shown) ==
    /\ DOMAIN d = DOMAIN shown
    /\ \A k \in DOMAIN d : d[k] = isostring(shown[k].t)
    /\ plot_y = [i \in 1..Cardinality(DOMAIN shown) |-> i]
    /\ Len(plot_x) = Len(plot_y)
    /\ \A t \in 0..MaxDate :
          Cardinality({i \in DOMAIN plot_x : plot_x[i] = datetime(t)})
              = Cardinality({k \in DOMAIN shown : shown[k] = datetime(t)})

\* A step leaves what d holds under its names as it is.
Kept1(d, d1) == \A k \in DOMAIN d : k \in DOMAIN d1 /\ d1[k] = d[k]

\* A step appends one point when a name is shown for the first time, and leaves
\* the points as they are otherwise.
PointPerName(plot_x, plot_y, shown, plot_x1, plot_y1, shown1) ==
    IF DOMAIN shown1 # DOMAIN shown
    THEN /\ Len(plot_x1) = Len(plot_x) + 1
         /\ Len(plot_y1) = Len(plot_y) + 1
         /\ SubSeq(plot_x1, 1, Len(plot_x)) = plot_x
         /\ SubSeq(plot_y1, 1, Len(plot_y)) = plot_y
         /\ plot_x1[Len(plot_x1)] = commit.committer_date
    ELSE plot_x1 = plot_x /\ plot_y1 = plot_y

\* C21: at every point of the traversal each module name and each contributor
\* name shown so far is recorded once, with the date of the first commit that
\* showed it; the plotted counts are 1, 2, ..., n for n distinct names; a point
\* is appended only by the step that records a new name; and no step changes a
\* recorded date.
C21_FirstSeenCounting ==
    /\ [](/\ FirstSeen(modules, mods_plot_x, mods_plot_y, mods_shown)
          /\ FirstSeen(contributors, contributors_plot_x, contributors_plot_y,
                       names_shown))
    /\ [][Kept1(modules, modules') /\ Kept1(contributors, contributors')]_vars
    /\ [][/\ PointPerName(mods_plot_x, mods_plot_y, mods_shown,
                          mods_plot_x', mods_plot_y', mods_shown')
          /\ PointPerName(contributors_plot_x, contributors_plot_y, names_shown,
                          contributors_plot_x', contributors_plot_y', names_shown')]_vars

\* C21 witness: the traversal has visited its commits; two modules and three
\* contributors, one of them a co-author, are recorded; a later commit of
\* another date added a file of a recorded module, and a later commit of
\* another date had a recorded contributor as committer or co-author.
C21_Witness ==
    /\ ppc = "next"
    /\ traversed = MaxCommits
    /\ len(modules) = 2
    /\ len(contributors) = 3
    /\ "Di Wu" \in DOMAIN contributors
    /\ reseen = {"module", "contributor"}

====
